---- MODULE Spec2Model ----
(***************************************************************************)
(* Showcase backend: job/portfolio store, the background resume task, the  *)
(* portfolio HTTP handlers, the rate-limited model wrapper, the Gemini     *)
(* vision adapter, the template copy step of the customization endpoint,   *)
(* the agent toolkits on the project tree, the chat WebSocket, the         *)
(* exception handlers, template selection, generated content, the text     *)
(* and JSON editing tools of CodeModificationTools, the integration API    *)
(* (generate_portfolio, export_portfolio), the GitHub deploy callback, the *)
(* portfolio routes and the template data-file lookup.                     *)
(***************************************************************************)
EXTENDS Integers, Sequences, FiniteSets, TLC

VARIABLES
    jobs,        \* Job table: job_id -> row (rows are written outside the task)
    portfolios,  \* Portfolio table, in insertion order
    task,        \* process_resume_task coroutine per job_id: position and arguments
    resp         \* HTTP response produced by the step just taken (RespNone: no request)

VARIABLES
    now,         \* wall clock, seconds
    caller,      \* threads inside RateLimitedGemini.response
    sent         \* times at which requests went out to the provider

VARIABLES
    vcall        \* GeminiAdapter.vision_to_text: the call in progress and its outcome

VARIABLES
    outdir,      \* output directory: destination name -> copied tree
    workdir,     \* customization request of each job: the copy it was handed
    edited       \* jobs that edited the copy they were handed

VARIABLES
    tree,        \* files on disk: absolute path -> content
    dirs         \* directories made by create_directory

VARIABLES
    ws           \* chat WebSocket handler: position, frames sent to the client

VARIABLES
    hreq         \* an HTTP request that fails: what was raised, what is answered

VARIABLES
    sel          \* template selection step of generate_portfolio

VARIABLES
    gen          \* generated content on its way out of generation and into storage

VARIABLES
    ftext,       \* content of the file a CodeModificationTools call works on
    fcall        \* the tool, its arguments, and the calls made so far

\* the integration call or HTTP request in progress: its name, its arguments,
\* where it stands, the outside calls it has made and what it answered
VARIABLES op

jobVars == <<jobs, portfolios, task, resp>>
rateVars == <<now, caller, sent>>
adapterVars == <<vcall>>
fileVars == <<outdir, workdir, edited>>

toolVars == <<tree, dirs>>

chatVars == <<ws>>

errVars == <<hreq>>

selVars == <<sel>>

genVars == <<gen>>

editVars == <<ftext, fcall>>

opVars == <<op>>

vars ==
    <<jobVars, rateVars, adapterVars, fileVars, toolVars, chatVars, errVars,
    selVars, genVars, editVars, opVars>>

exceptJobVars ==
    <<rateVars, adapterVars, fileVars, toolVars, chatVars, errVars, selVars,
    genVars, editVars, opVars>>
exceptRateVars ==
    <<jobVars, adapterVars, fileVars, toolVars, chatVars, errVars, selVars,
    genVars, editVars, opVars>>
exceptAdapterVars ==
    <<jobVars, rateVars, fileVars, toolVars, chatVars, errVars, selVars,
    genVars, editVars, opVars>>
exceptFileVars ==
    <<jobVars, rateVars, adapterVars, toolVars, chatVars, errVars, selVars,
    genVars, editVars, opVars>>
exceptToolVars ==
    <<jobVars, rateVars, adapterVars, fileVars, chatVars, errVars, selVars,
    genVars, editVars, opVars>>
exceptChatVars ==
    <<jobVars, rateVars, adapterVars, fileVars, toolVars, errVars, selVars,
    genVars, editVars, opVars>>
exceptErrVars ==
    <<jobVars, rateVars, adapterVars, fileVars, toolVars, chatVars, selVars,
    genVars, editVars, opVars>>
exceptSelVars ==
    <<jobVars, rateVars, adapterVars, fileVars, toolVars, chatVars, errVars,
    genVars, editVars, opVars>>
exceptGenVars ==
    <<jobVars, rateVars, adapterVars, fileVars, toolVars, chatVars, errVars,
    selVars, editVars, opVars>>
exceptEditVars ==
    <<jobVars, rateVars, adapterVars, fileVars, toolVars, chatVars, errVars,
    selVars, genVars, opVars>>
exceptOpVars ==
    <<jobVars, rateVars, adapterVars, fileVars, toolVars, chatVars, errVars,
    selVars, genVars, editVars>>

(***************************************************************************)
(* Bounds and input domains                                                *)
(***************************************************************************)
NumUsers == 2
NumSlugs == 1

JobIds == {1, 2}
Users == 1..NumUsers
Slugs == 1..NumSlugs

None == "None"

(***************************************************************************)
(* Job rows (app.models.job as used by get_portfolio_by_job)               *)
(***************************************************************************)
JobStatus ==
    {"PENDING", "PROCESSING", "OCR_EXTRACTING", "AI_GENERATING",
     "VALIDATING", "COMPLETED", "FAILED"}

NonTerminal ==
    {"PENDING", "PROCESSING", "OCR_EXTRACTING", "AI_GENERATING", "VALIDATING"}

Terminal == {"COMPLETED", "FAILED"}

\* progress_percentage and current_stage stored with a row of each status
Progress(s) ==
    CASE s = "PENDING" -> 0
      [] s = "PROCESSING" -> 10
      [] s = "OCR_EXTRACTING" -> 30
      [] s = "AI_GENERATING" -> 60
      [] s = "VALIDATING" -> 90
      [] s = "COMPLETED" -> 100
      [] OTHER -> 60

Stage(s) ==
    CASE s = "PENDING" -> "queued"
      [] s = "PROCESSING" -> "processing"
      [] s = "OCR_EXTRACTING" -> "ocr"
      [] s = "AI_GENERATING" -> "ai_generation"
      [] s = "VALIDATING" -> "validation"
      [] s = "COMPLETED" -> "completed"
      [] OTHER -> "ai_generation"

\* the rows the Job table may hold when the model starts
JobRows ==
    {[status |-> s, progress_percentage |-> Progress(s),
      current_stage |-> Stage(s),
      error_message |-> IF s = "FAILED" THEN "boom" ELSE None]
        : s \in JobStatus}

JobNone ==
    [status |-> None, progress_percentage |-> 0, current_stage |-> None,
     error_message |-> None]

\* db.exec(select(Job).where(Job.job_id == job_id)).first()
SelectJob(jid) == IF jid \in DOMAIN jobs THEN jobs[jid] ELSE JobNone

(***************************************************************************)
(* Portfolio rows                                                          *)
(***************************************************************************)
\* what ai_service.generate_portfolio_content may hand back
Contents ==
    {[is_dict |-> FALSE, has_hero |-> FALSE, name |-> None],
     [is_dict |-> TRUE, has_hero |-> FALSE, name |-> None],
     [is_dict |-> TRUE, has_hero |-> TRUE, name |-> "Ann"]}

PortfolioNone ==
    [job_id |-> 0, user_id |-> 0, full_name |-> None,
     content |-> [is_dict |-> FALSE, has_hero |-> FALSE, name |-> None],
     is_published |-> FALSE, slug |-> 0]

\* indexes of the rows matching a predicate, .first() takes the least
FirstIndex(S) == CHOOSE i \in S : \A k \in S : i <= k

JobPortfolioIdx(jid) == {i \in 1..Len(portfolios) : portfolios[i].job_id = jid}

\* db.exec(select(Portfolio).where(Portfolio.job_id == job_id)).first()
SelectPortfolioByJob(jid) ==
    IF JobPortfolioIdx(jid) = {} THEN PortfolioNone
    ELSE portfolios[FirstIndex(JobPortfolioIdx(jid))]

HasPortfolio(jid) == JobPortfolioIdx(jid) # {}

(***************************************************************************)
(* HTTP responses                                                          *)
(***************************************************************************)
ErrNone == [error_type |-> None, message |-> <<>>]

RespNone ==
    [op |-> None, job_id |-> 0, uid |-> 0, slug |-> 0,
     status_code |-> 0, portfolio |-> PortfolioNone, error |-> ErrNone]

\* str(exc.detail) of a dict: its items in insertion order, values rendered
DictStr(keys, d) == [i \in 1..Len(keys) |-> <<keys[i], d[keys[i]]>>]

\* http_exception_handler: APIResponse.error("HTTPError", str(exc.detail))
HttpError(keys, detail) ==
    [error_type |-> "HTTPError", message |-> DictStr(keys, detail)]

\* value carried under key k by a rendered detail, None when the key is absent
Field(msg, k) ==
    IF \E i \in 1..Len(msg) : msg[i][1] = k
    THEN msg[CHOOSE i \in 1..Len(msg) : msg[i][1] = k][2]
    ELSE None

(***************************************************************************)
(* process_resume_task: one coroutine per job, suspended at its awaits     *)
(***************************************************************************)
\* raw_text, the argument of generate_portfolio_content and portfolio_json are
\* locals of the coroutine: None before they are bound and after it ended
TaskIdle ==
    [pc |-> "idle", user_id |-> 0, raw_text |-> None, gen_arg |-> None,
     portfolio_json |-> None]

\* what ocr_service.extract_text may hand back
OcrTexts == {"cv one", "cv two"}

\* an except block that marks the row FAILED whatever its status
TaskExceptJobOverwrite(row) ==
    [row EXCEPT !.status = "FAILED", !.error_message = "boom"]

\* the Job row after the task's except block ran: rollback, log, re-raise
TaskExceptJob(row) == row

\* the Job row as the task moves to a stage: only log lines are written
TaskStageJob(row, stage) == row

\* the Job row after the task's commit of the new Portfolio
TaskCommitJob(row) == row

JobsAfter(jid, row) ==
    IF jid \in DOMAIN jobs THEN [jobs EXCEPT ![jid] = row] ELSE jobs

\* portfolio_json.get("hero", {}).get("name", "User")
FullName(c) == IF c.has_hero /\ c.name # None THEN c.name ELSE "User"

\* not isinstance(portfolio_json, dict) or "hero" not in portfolio_json
InvalidFormat(c) == ~c.is_dict \/ ~c.has_hero

\* a call that hands generation something else than the text OCR returned
GenerateArgBlank(raw_text) == ""

\* ai_service.generate_portfolio_content(raw_text): the argument of the call
GenerateArg(raw_text) == raw_text

NewPortfolio(jid, uid, c) ==
    [job_id |-> jid, user_id |-> uid, full_name |-> FullName(c),
     content |-> c, is_published |-> FALSE, slug |-> 0]

\* the background task is scheduled and runs up to `await ocr_service.extract_text`
TaskStart(jid, uid) ==
    /\ task[jid].pc = "idle"
    /\ task' = [task EXCEPT ![jid] = [TaskIdle EXCEPT !.pc = "ocr", !.user_id = uid]]
    /\ jobs' = JobsAfter(jid, TaskStageJob(SelectJob(jid), "ocr"))
    /\ resp' = RespNone
    /\ UNCHANGED <<portfolios, exceptJobVars>>

\* OCR returned text: runs up to `await ai_service.generate_portfolio_content`
OcrReturn(jid, text) ==
    /\ task[jid].pc = "ocr"
    /\ task' = [task EXCEPT ![jid].pc = "generate",
                            ![jid].raw_text = text,
                            ![jid].gen_arg = GenerateArg(text)]
    /\ jobs' = JobsAfter(jid, TaskStageJob(SelectJob(jid), "generate"))
    /\ resp' = RespNone
    /\ UNCHANGED <<portfolios, exceptJobVars>>

\* an await raised: except block (db.rollback, log, raise), then finally
TaskRaise(jid) ==
    /\ task[jid].pc \in {"ocr", "generate"}
    /\ task' = [task EXCEPT ![jid] =
                    [TaskIdle EXCEPT !.pc = "failed", !.user_id = task[jid].user_id]]
    /\ jobs' = JobsAfter(jid, TaskExceptJob(SelectJob(jid)))
    /\ resp' = RespNone
    /\ UNCHANGED <<portfolios, exceptJobVars>>

\* generation returned c: format check, Portfolio(...), db.add, db.commit,
\* db.refresh; a raise after the commit reaches the except block with the
\* new row already stored, where db.rollback has nothing left to undo
GenerateReturn(jid, c, commit_ok, refresh_ok) ==
    /\ task[jid].pc = "generate"
    /\ IF InvalidFormat(c) \/ ~commit_ok
          THEN /\ task' = [task EXCEPT ![jid] =
                          [TaskIdle EXCEPT !.pc = "failed",
                                           !.user_id = task[jid].user_id]]
               /\ jobs' = JobsAfter(jid, TaskExceptJob(SelectJob(jid)))
               /\ UNCHANGED portfolios
          ELSE /\ portfolios' =
                     Append(portfolios, NewPortfolio(jid, task[jid].user_id, c))
               /\ IF refresh_ok
                     THEN /\ task' = [task EXCEPT ![jid] =
                                     [TaskIdle EXCEPT !.pc = "done",
                                                      !.user_id = task[jid].user_id,
                                                      !.portfolio_json = c]]
                          /\ jobs' = JobsAfter(jid, TaskCommitJob(SelectJob(jid)))
                     ELSE /\ task' = [task EXCEPT ![jid] =
                                     [TaskIdle EXCEPT !.pc = "failed",
                                                      !.user_id = task[jid].user_id,
                                                      !.portfolio_json = c]]
                          /\ jobs' = JobsAfter(jid,
                                         TaskExceptJob(TaskCommitJob(SelectJob(jid))))
    /\ resp' = RespNone
    /\ UNCHANGED exceptJobVars

(***************************************************************************)
(* GET /api/v1/portfolio/{job_id}                                          *)
(***************************************************************************)
\* the status list with VALIDATING left out
StillProcessingShort(row) ==
    row.status \in {"PENDING", "PROCESSING", "OCR_EXTRACTING", "AI_GENERATING"}

\* job.status in [PENDING, PROCESSING, OCR_EXTRACTING, AI_GENERATING, VALIDATING]
StillProcessing(row) ==
    row.status \in {"PENDING", "PROCESSING", "OCR_EXTRACTING",
                    "AI_GENERATING", "VALIDATING"}

\* the COMPLETED branch answering like the unknown-status branch
JobStatusCodeNoIntegrity(row) ==
    IF row = JobNone THEN 404
    ELSE IF row.status = "FAILED" THEN 424
    ELSE IF StillProcessing(row) THEN 202
    ELSE 404

\* status code of the HTTPException raised when no Portfolio row was found
JobStatusCode(row) ==
    IF row = JobNone THEN 404
    ELSE IF row.status = "FAILED" THEN 424
    ELSE IF StillProcessing(row) THEN 202
    ELSE IF row.status = "COMPLETED" THEN 500
    ELSE 404

\* detail of that HTTPException, rendered by the handler
JobStatusDetail(jid, row) ==
    IF row = JobNone THEN
        HttpError(<<"message", "job_id", "suggestion">>,
            [message |-> "Job not found", job_id |-> ToString(jid),
             suggestion |-> "Verify the job_id"])
    ELSE IF row.status = "FAILED" THEN
        HttpError(<<"message", "job_id", "status", "error", "suggestion",
                    "debug_endpoint">>,
            [message |-> "Portfolio generation failed.",
             job_id |-> ToString(jid), status |-> row.status,
             error |-> row.error_message, suggestion |-> "Upload again",
             debug_endpoint |-> "debug"])
    ELSE IF StillProcessing(row) THEN
        HttpError(<<"message", "job_id", "status", "progress_percentage",
                    "current_stage", "suggestion", "debug_endpoint">>,
            [message |-> "Portfolio is still being generated.",
             job_id |-> ToString(jid), status |-> row.status,
             progress_percentage |-> ToString(row.progress_percentage),
             current_stage |-> row.current_stage,
             suggestion |-> "Check job status", debug_endpoint |-> "debug"])
    ELSE IF row.status = "COMPLETED" THEN
        HttpError(<<"message", "job_id", "status", "job_portfolio_id",
                    "suggestion", "debug_endpoint">>,
            [message |-> "Portfolio not found despite job completion.",
             job_id |-> ToString(jid), status |-> row.status,
             job_portfolio_id |-> None, suggestion |-> "Contact support",
             debug_endpoint |-> "debug"])
    ELSE
        HttpError(<<"message", "job_id", "status", "suggestion",
                    "debug_endpoint">>,
            [message |-> "Portfolio not found.", job_id |-> ToString(jid),
             status |-> row.status, suggestion |-> "Check job status",
             debug_endpoint |-> "debug"])

get_portfolio_by_job(jid) ==
    /\ resp' =
         IF HasPortfolio(jid)
         THEN [RespNone EXCEPT !.op = "get_portfolio_by_job", !.job_id = jid,
                               !.status_code = 200,
                               !.portfolio = SelectPortfolioByJob(jid)]
         ELSE [RespNone EXCEPT !.op = "get_portfolio_by_job", !.job_id = jid,
                               !.status_code = JobStatusCode(SelectJob(jid)),
                               !.error = JobStatusDetail(jid, SelectJob(jid))]
    /\ UNCHANGED <<jobs, portfolios, task, exceptJobVars>>

(***************************************************************************)
(* PATCH /api/v1/portfolio/{job_id}/publish                                *)
(***************************************************************************)
\* PortfolioUpdate bodies: each field unset (<<>>) or set (<<value>>)
Updates ==
    {[is_published |-> p, slug |-> s] :
        p \in {<<>>, <<TRUE>>, <<FALSE>>}, s \in {<<>>} \cup {<<x>> : x \in Slugs}}

\* the ownership test left out
NotOwnerSkipped(row, uid) == FALSE

\* db_portfolio.user_id != current_user.get("uid")
NotOwner(row, uid) == row.user_id # uid

\* for key, value in model_dump(exclude_unset=True).items(): setattr(...)
ApplyUpdate(row, upd) ==
    [row EXCEPT
        !.is_published = IF upd.is_published # <<>> THEN upd.is_published[1] ELSE @,
        !.slug = IF upd.slug # <<>> THEN upd.slug[1] ELSE @]

update_portfolio_settings(jid, uid, upd) ==
    /\ IF ~HasPortfolio(jid)
       THEN /\ resp' = [RespNone EXCEPT !.op = "update_portfolio_settings",
                            !.job_id = jid, !.uid = uid, !.status_code = 404,
                            !.error = HttpError(<<"error", "job_id">>,
                                [error |-> "Portfolio not found",
                                 job_id |-> ToString(jid)])]
            /\ UNCHANGED portfolios
       ELSE IF NotOwner(SelectPortfolioByJob(jid), uid)
       THEN /\ resp' = [RespNone EXCEPT !.op = "update_portfolio_settings",
                            !.job_id = jid, !.uid = uid, !.status_code = 403,
                            !.error = HttpError(<<"error", "job_id">>,
                                [error |-> "Unauthorized",
                                 job_id |-> ToString(jid)])]
            /\ UNCHANGED portfolios
       ELSE /\ portfolios' =
                 [portfolios EXCEPT ![FirstIndex(JobPortfolioIdx(jid))] =
                     ApplyUpdate(@, upd)]
            /\ resp' = [RespNone EXCEPT !.op = "update_portfolio_settings",
                            !.job_id = jid, !.uid = uid, !.status_code = 200,
                            !.portfolio =
                                ApplyUpdate(SelectPortfolioByJob(jid), upd)]
    /\ UNCHANGED <<jobs, task, exceptJobVars>>

(***************************************************************************)
(* GET /api/v1/portfolio/public/{slug}                                     *)
(***************************************************************************)
\* the query without its is_published filter
PublicMatchSlugOnly(row, slug) == row.slug = slug

\* where(Portfolio.slug == slug, Portfolio.is_published == True)
PublicMatch(row, slug) == row.slug = slug /\ row.is_published

PublicIdx(slug) ==
    {i \in 1..Len(portfolios) : PublicMatch(portfolios[i], slug)}

get_public_portfolio(slug) ==
    /\ resp' =
         IF PublicIdx(slug) = {}
         THEN [RespNone EXCEPT !.op = "get_public_portfolio", !.slug = slug,
                   !.status_code = 404,
                   !.error = HttpError(<<"error", "slug">>,
                       [error |-> "Portfolio not found",
                        slug |-> ToString(slug)])]
         ELSE [RespNone EXCEPT !.op = "get_public_portfolio", !.slug = slug,
                   !.status_code = 200,
                   !.portfolio = portfolios[FirstIndex(PublicIdx(slug))]]
    /\ UNCHANGED <<jobs, portfolios, task, exceptJobVars>>

(***************************************************************************)
(* RateLimitedGemini.response: sleep, then hand the request to the provider *)
(***************************************************************************)
RATE_LIMIT_DELAY == 15

NumCallers == 2
MaxRequests == 3
TickStep == 5
MaxTime == 35

Callers == 1..NumCallers

CallerIdle == [pc |-> "idle", entered |-> 0, wake |-> 0]

RateIdle ==
    /\ now = 0
    /\ caller = [c \in Callers |-> CallerIdle]
    /\ sent = <<>>

Sleeping == {c \in Callers : caller[c].pc = "sleeping"}

\* the time at which time.sleep(RATE_LIMIT_DELAY) entered at t may return
WakeTime(t) == t + RATE_LIMIT_DELAY

\* a thread enters response(): log, print, time.sleep(RATE_LIMIT_DELAY)
response_enter(c) ==
    /\ caller[c].pc = "idle"
    /\ Len(sent) + Cardinality(Sleeping) < MaxRequests
    /\ caller' = [caller EXCEPT ![c] =
                     [pc |-> "sleeping", entered |-> now, wake |-> WakeTime(now)]]
    /\ UNCHANGED <<now, sent, exceptRateVars>>

\* the sleep is over: return super().response(messages, ...)
response_send(c) ==
    /\ caller[c].pc = "sleeping"
    /\ now >= caller[c].wake
    /\ sent' = Append(sent, [by |-> c, entered |-> caller[c].entered, at |-> now])
    /\ caller' = [caller EXCEPT ![c] = CallerIdle]
    /\ UNCHANGED <<now, exceptRateVars>>

Tick ==
    /\ now < MaxTime
    /\ now' = now + TickStep
    /\ UNCHANGED <<caller, sent, exceptRateVars>>

(***************************************************************************)
(* GeminiAdapter.vision_to_text                                            *)
(***************************************************************************)
MaxMsgLen == 4

MsgChars == {"4", "2", "9", "x"}

\* str(e) of the exceptions the provider call may raise
Messages == UNION {[1..n -> MsgChars] : n \in 0..MaxMsgLen}

\* "Empty response from Gemini"
EmptyMsg ==
    <<"E", "m", "p", "t", "y", " ", "r", "e", "s", "p", "o", "n", "s", "e",
      " ", "f", "r", "o", "m", " ", "G", "e", "m", "i", "n", "i">>

Texts == {<<>>, <<"a">>, <<"4", "2", "9">>}

\* what generate_content does: raise, or return a response object
ProviderOutcomes ==
    {[kind |-> "raise", response |-> None, text |-> <<>>, msg |-> m]
        : m \in Messages}
    \cup {[kind |-> "return", response |-> r, text |-> <<>>, msg |-> <<>>]
        : r \in {"none", "no_text_attr"}}
    \cup {[kind |-> "return", response |-> "object", text |-> t, msg |-> <<>>]
        : t \in Texts}

\* needle in haystack, for strings as character sequences
Contains(hay, needle) ==
    \E i \in 0..(Len(hay) - Len(needle)) :
        \A k \in 1..Len(needle) : hay[i + k] = needle[k]

\* not response or not hasattr(response, 'text') or not response.text
NoText(o) == o.response # "object" \/ o.text = <<>>

\* the exception that reaches `except Exception as e`, if any
RaisedInTry(o) ==
    IF o.kind = "raise" THEN [raised |-> TRUE, cls |-> "Exception", msg |-> o.msg]
    ELSE IF NoText(o)
         THEN [raised |-> TRUE, cls |-> "GeminiEmptyResponseError", msg |-> EmptyMsg]
         ELSE [raised |-> FALSE, cls |-> None, msg |-> <<>>]

\* the except clause: the class of the exception that leaves vision_to_text
ExceptClause(e) ==
    IF Contains(e.msg, <<"4", "2", "9">>) THEN "GeminiRateLimitError"
    ELSE "GeminiAPIError"

VisionOutcome(o) ==
    IF RaisedInTry(o).raised
    THEN [error |-> ExceptClause(RaisedInTry(o)), text |-> <<>>]
    ELSE [error |-> None, text |-> o.text]

VCallIdle ==
    [pc |-> "idle", provider |-> [kind |-> None, response |-> None,
                                  text |-> <<>>, msg |-> <<>>],
     error |-> None, text |-> <<>>]

AdapterIdle == vcall = VCallIdle

\* vision_to_text up to `await asyncio.to_thread(generate_content, ...)`
vision_to_text_call ==
    /\ vcall.pc = "idle"
    /\ vcall' = [vcall EXCEPT !.pc = "awaiting"]
    /\ UNCHANGED exceptAdapterVars

\* the provider call finished with outcome o: rest of vision_to_text
vision_to_text_finish(o) ==
    /\ vcall.pc = "awaiting"
    /\ vcall' = [pc |-> "done", provider |-> o,
                 error |-> VisionOutcome(o).error,
                 text |-> VisionOutcome(o).text]
    /\ UNCHANGED exceptAdapterVars

(***************************************************************************)
(* POST /api/v1/portfolio/customize and FileSystemTools.copy_template      *)
(***************************************************************************)
NumTemplates == 2

\* directories under templates_dir
TemplateIds == 1..NumTemplates

\* template_id values a request may carry: 0 names no installed template
RequestTemplates == 0..NumTemplates

NoTree == [exists |-> FALSE, edits |-> {}]

\* shutil.copytree(source, dest): the pristine template
FreshCopy == [exists |-> TRUE, edits |-> {}]

FilesIdle ==
    /\ outdir = [d \in TemplateIds |-> NoTree]
    /\ workdir = [j \in JobIds |-> 0]
    /\ edited = [j \in JobIds |-> FALSE]

\* dest_name = output_name or template_id; the endpoint passes no output_name
DestName(template_id, output_name) ==
    IF output_name # 0 THEN output_name ELSE template_id

\* destination used for the request of job jid
CustomizeDest(jid, template_id) == DestName(template_id, 0)

\* copy_template: rmtree(dest) when it exists, then copytree(source, dest)
copy_template(dest) == [outdir EXCEPT ![dest] = FreshCopy]

\* the customize endpoint, called for job jid with request.template_id = t
customize_portfolio_template(jid, t) ==
    /\ IF t \notin TemplateIds
       THEN UNCHANGED <<outdir, workdir, edited>>
       ELSE /\ outdir' = copy_template(CustomizeDest(jid, t))
            /\ workdir' = [workdir EXCEPT ![jid] = CustomizeDest(jid, t)]
            /\ edited' = [edited EXCEPT ![jid] = FALSE]
    /\ UNCHANGED exceptFileVars

\* write_file by job jid into the copy it was handed
write_file(jid) ==
    /\ workdir[jid] # 0
    /\ outdir[workdir[jid]].exists
    /\ outdir' = [outdir EXCEPT ![workdir[jid]].edits = @ \cup {jid}]
    /\ edited' = [edited EXCEPT ![jid] = TRUE]
    /\ UNCHANGED <<workdir, exceptFileVars>>

(***************************************************************************)
(* FileSystemTools and CodeModificationTools on the project tree           *)
(***************************************************************************)
\* Path(__file__).resolve().parent.parent.parent, base_dir / "templates",
\* base_dir / "output"
ToolsBaseDir == <<"Showcase">>
ToolsTemplatesDir == ToolsBaseDir \o <<"templates">>
ToolsOutputDir == ToolsBaseDir \o <<"output">>

TemplateFile == <<"one_temp", "index.css">>

\* path arguments an agent may pass: relative or absolute
PathArgs ==
    {[abs |-> FALSE, segs |-> TemplateFile],
     [abs |-> FALSE, segs |-> <<"templates">> \o TemplateFile],
     [abs |-> TRUE, segs |-> ToolsTemplatesDir \o TemplateFile],
     [abs |-> TRUE, segs |-> ToolsOutputDir \o TemplateFile]}

FileContents == {"template", "written", "edited"}

\* FileSystemTools._resolve_output_path and CodeModificationTools._resolve_path:
\* an absolute path is taken as it is, a relative one is joined to dir
ResolvePath(dir, p) == IF p.abs THEN p.segs ELSE dir \o p.segs

Under(path, dir) ==
    Len(path) > Len(dir) /\ SubSeq(path, 1, Len(dir)) = dir

\* the tree as the repository ships it: the templates, no output
ToolsIdle ==
    /\ tree = (ToolsTemplatesDir \o TemplateFile :> "template")
    /\ dirs = {}

\* FileSystemTools.write_file: mkdir of the parents, write_text
tools_write_file(p, content) ==
    LET file_path == ResolvePath(ToolsOutputDir, p) IN
    /\ tree' = [f \in DOMAIN tree \cup {file_path} |->
                   IF f = file_path THEN content ELSE tree[f]]
    /\ UNCHANGED <<dirs, exceptToolVars>>

\* FileSystemTools.create_directory: mkdir(parents=True, exist_ok=True)
tools_create_directory(p) ==
    /\ dirs' = dirs \cup {ResolvePath(ToolsOutputDir, p)}
    /\ UNCHANGED <<tree, exceptToolVars>>

\* FileSystemTools.copy_template: rmtree of an existing dest, then copytree
tools_copy_template(template_id, output_name) ==
    LET source == ToolsTemplatesDir \o <<template_id>>
        dest == ToolsOutputDir \o <<output_name>>
        kept == {f \in DOMAIN tree : ~Under(f, dest)}
        copied == {dest \o SubSeq(f, Len(source) + 1, Len(f)) :
                      f \in {g \in DOMAIN tree : Under(g, source)}}
    IN
    /\ \E f \in DOMAIN tree : Under(f, source)
    /\ tree' = [f \in kept \cup copied |->
                   IF f \in copied
                   THEN tree[source \o SubSeq(f, Len(dest) + 1, Len(f))]
                   ELSE tree[f]]
    /\ dirs' = {d \in dirs : ~Under(d, dest)}
    /\ UNCHANGED exceptToolVars

\* a CodeModificationTools edit (find_and_replace, update_css_variable, ...):
\* _resolve_path, exists check, read_text, write_text of the changed content
tools_find_and_replace(p) ==
    LET path == ResolvePath(ToolsBaseDir, p) IN
    /\ path \in DOMAIN tree
    /\ tree[path] # "edited"
    /\ tree' = [tree EXCEPT ![path] = "edited"]
    /\ UNCHANGED <<dirs, exceptToolVars>>

(***************************************************************************)
(* Chat WebSocket endpoint (app.chat.websocket_endpoint)                   *)
(***************************************************************************)
MaxMessages == 2
MaxChunks == 2

END_OF_STREAM == "__END_OF_STREAM__"

\* accepted, chat session started, suspended in `await websocket.receive_text()`
ChatIdle ==
    ws = [pc |-> "receive", received |-> 0, chunks |-> 0, sent |-> <<>>,
          raised |-> None]

\* a text message arrives: send_message(user_input, stream=True) is called
chat_receive ==
    /\ ws.pc = "receive"
    /\ ws.received < MaxMessages
    /\ ws' = [ws EXCEPT !.pc = "stream", !.received = @ + 1, !.chunks = 0]
    /\ UNCHANGED exceptChatVars

\* the reply yields a chunk: it is sent when its text is not empty
chat_chunk(text) ==
    /\ ws.pc = "stream"
    /\ ws.chunks < MaxChunks
    /\ ws' = [ws EXCEPT !.chunks = @ + 1,
                        !.sent = IF text # "" THEN Append(@, text) ELSE @]
    /\ UNCHANGED exceptChatVars

\* the reply is exhausted: the end token is sent, back to receive_text
chat_end ==
    /\ ws.pc = "stream"
    /\ ws' = [ws EXCEPT !.pc = "receive", !.sent = Append(@, END_OF_STREAM)]
    /\ UNCHANGED exceptChatVars

\* the except clauses: WebSocketDisconnect (raised by receive_text or
\* send_text) is logged; any other exception (raised by send_message or
\* while the reply is iterated) is logged and sent as one "Error: ..." frame;
\* either way the handler returns
chat_except(e) ==
    /\ ws.pc \in {"receive", "stream"}
    /\ e = "Exception" => ws.pc = "stream"
    /\ ws' = [ws EXCEPT !.pc = "closed", !.raised = e,
                        !.sent = IF e = "Exception"
                                 THEN Append(@, "Error: boom") ELSE @]
    /\ UNCHANGED exceptChatVars

(***************************************************************************)
(* Exceptions raised while an HTTP request is handled                      *)
(***************************************************************************)
\* endpoints whose body sits in `try: ... except Exception as e: raise
\* HTTPException(status_code=..., detail=...str(e))`, with the status they use
WrapStatus ==
    [list_templates |-> 500, get_template |-> 500,
     customize_portfolio_template |-> 500, chat_with_portfolio_ai |-> 500,
     deploy_github_callback |-> 400]

\* the endpoints above and one that has no try block of its own
Endpoints == DOMAIN WrapStatus \cup {"get_portfolio_by_job"}

ExcNone == [kind |-> None, text |-> <<>>, status_code |-> 0]

\* app.exceptions: every class with the class it derives from
ShowcaseParent ==
    [ShowcaseError |-> "Exception",
     ValidationError |-> "ShowcaseError",
     FileValidationError |-> "ValidationError",
     PipelineError |-> "ShowcaseError",
     OCRError |-> "PipelineError",
     ContentGenerationError |-> "PipelineError",
     SchemaError |-> "PipelineError",
     ExternalServiceError |-> "ShowcaseError",
     GeminiError |-> "ExternalServiceError",
     RateLimitError |-> "ExternalServiceError",
     DatabaseError |-> "ShowcaseError",
     NotFoundError |-> "DatabaseError",
     AuthError |-> "ShowcaseError",
     AuthenticationError |-> "AuthError",
     AuthorizationError |-> "AuthError",
     ConfigurationError |-> "ShowcaseError"]

\* isinstance(exc, base) for an exception of class cls
RECURSIVE IsInstance(_, _)
IsInstance(cls, base) ==
    \/ cls = base
    \/ cls \in DOMAIN ShowcaseParent /\ IsInstance(ShowcaseParent[cls], base)

\* a status mapping that compares the class name instead of using isinstance
ShowcaseStatusCodeExact(cls) ==
    CASE cls = "ValidationError" -> 400
      [] cls = "NotFoundError" -> 404
      [] cls = "AuthenticationError" -> 401
      [] cls = "AuthorizationError" -> 403
      [] cls = "RateLimitError" -> 429
      [] OTHER -> 500

\* showcase_exception_handler: status_code = 500, then the isinstance chain
ShowcaseStatusCode(cls) ==
    IF IsInstance(cls, "ValidationError") THEN 400
    ELSE IF IsInstance(cls, "NotFoundError") THEN 404
    ELSE IF IsInstance(cls, "AuthenticationError") THEN 401
    ELSE IF IsInstance(cls, "AuthorizationError") THEN 403
    ELSE IF IsInstance(cls, "RateLimitError") THEN 429
    ELSE 500

ErrorsIdle ==
    hreq = [pc |-> "idle", endpoint |-> None, raised |-> ExcNone,
            exc |-> ExcNone, response |-> RespNone.error, status_code |-> 0]

\* the message of general_exception_handler
SCRUBBED == <<"An unexpected error occurred. Please try again later.">>

\* the body of endpoint ep raises an exception of class kind with str(e) = text;
\* the endpoint's own except clause, when it has one, re-raises it as an
\* HTTPException whose detail holds str(e)
endpoint_raise(ep, kind, text) ==
    LET e == [kind |-> kind, text |-> text, status_code |-> 0] IN
    /\ hreq.pc \in {"idle", "responded"}
    /\ hreq' = [pc |-> "raised", endpoint |-> ep, raised |-> e,
                exc |-> IF ep \in DOMAIN WrapStatus
                        THEN [kind |-> "HTTPException",
                              text |-> IF ep = "deploy_github_callback"
                                       THEN <<"Deployment failed: ">> \o text
                                       ELSE text,
                              status_code |-> WrapStatus[ep]]
                        ELSE e,
                response |-> RespNone.error, status_code |-> 0]
    /\ UNCHANGED exceptErrVars

\* add_exception_handlers: the handler registered for the class of the
\* exception that left the endpoint builds the response
exception_handler ==
    /\ hreq.pc = "raised"
    /\ hreq' =
          [hreq EXCEPT
              !.pc = "responded",
              !.status_code =
                  IF IsInstance(hreq.exc.kind, "ShowcaseError")
                      THEN ShowcaseStatusCode(hreq.exc.kind)
                  ELSE IF hreq.exc.kind = "HTTPException"
                      THEN hreq.exc.status_code
                  ELSE 500,
              !.response =
                  CASE IsInstance(hreq.exc.kind, "ShowcaseError") ->
                          [error_type |-> hreq.exc.kind, message |-> hreq.exc.text]
                    [] hreq.exc.kind = "HTTPException" ->
                          [error_type |-> "HTTPError", message |-> hreq.exc.text]
                    [] OTHER ->
                          [error_type |-> "InternalServerError",
                           message |-> SCRUBBED]]
    /\ UNCHANGED exceptErrVars

(***************************************************************************)
(* Template selection (generate_portfolio step 2, TemplateRegistryTools)   *)
(***************************************************************************)
MaxRoleLen == 3
MaxContentLen == 3

\* ids of the templates in registry.json
RegistryIds == {"one_temp", "two_temp"}

\* selectionCriteria.byRole in insertion order; role keys are lower-case
\* words, here over a two-letter alphabet
ByRole ==
    <<[role_key |-> <<"d", "e">>, template_ids |-> <<"one_temp">>],
      [role_key |-> <<"x">>, template_ids |-> <<"two_temp">>]>>

SelectIdle ==
    sel = [pc |-> "idle", role |-> <<>>, recommended_templates |-> <<>>,
           matched |-> FALSE, selected_template_id |-> <<>>]

\* TemplateRegistryTools.find_templates_by_role, called by the selector agent:
\* the first key that is a substring of role.lower() or has it as a substring
find_templates_by_role(role) ==
    LET role_lower == [i \in 1..Len(role) |-> IF role[i] = "D" THEN "d" ELSE role[i]]
        hits == {i \in 1..Len(ByRole) :
                    \/ Contains(role_lower, ByRole[i].role_key)
                    \/ Contains(ByRole[i].role_key, role_lower)}
    IN
    /\ sel.pc = "idle"
    /\ sel' = [sel EXCEPT
                  !.pc = "lookup",
                  !.role = role,
                  !.matched = hits # {},
                  !.recommended_templates =
                      IF hits # {} THEN ByRole[FirstIndex(hits)].template_ids
                      ELSE <<>>]
    /\ UNCHANGED exceptSelVars

\* template_response.content.strip() with every backtick removed: content is
\* a sequence of pieces of text, " " being white space
SelectedTemplateId(content) ==
    LET solid == {i \in 1..Len(content) : content[i] # " "}
        stripped ==
            IF solid = {} THEN <<>>
            ELSE SubSeq(content, FirstIndex(solid),
                        CHOOSE i \in solid : \A k \in solid : k <= i)
        NotBacktick(piece) == piece # "[backtick]"
    IN SelectSeq(stripped, NotBacktick)

\* template_selector.arun(...) returns: the response text becomes the id
select_template(content) ==
    /\ sel.pc \in {"idle", "lookup"}
    /\ sel' = [sel EXCEPT !.pc = "selected",
                          !.selected_template_id = SelectedTemplateId(content)]
    /\ UNCHANGED exceptSelVars

(***************************************************************************)
(* Generated content: GenerationAgent.run and the storing step of          *)
(* process_resume_task                                                     *)
(***************************************************************************)
\* JSON objects a model reply may parse to: tagline by its length,
\* primary_color as text, quality_score in hundredths
GenContents ==
    [is_dict : {TRUE}, has_hero : BOOLEAN, name : {"Ann"},
     tagline_len : {0, 100, 101},
     primary_color : {<<"#", "3", "B", "8", "2", "F", "6">>, <<"#", "F", "F", "F">>,
                      <<"b", "l", "u", "e">>},
     quality_score : {-1, 0, 100, 101}]

GenIdle == gen = [pc |-> "idle", via |-> None, content |-> None, error |-> None]

\* PortfolioOutput(**parsed): the schema accepts the object
PortfolioOutputValid(c) ==
    /\ c.has_hero
    /\ c.tagline_len <= 100
    /\ Len(c.primary_color) = 7
    /\ c.primary_color[1] = "#"
    /\ \A i \in 2..7 :
          c.primary_color[i] \in
              {"0", "1", "2", "3", "4", "5", "6", "7", "8", "9",
               "A", "B", "C", "D", "E", "F", "a", "b", "c", "d", "e", "f"}
    /\ c.quality_score >= 0
    /\ c.quality_score <= 100

\* GenerationAgent.run from json.loads on: the validated object is returned,
\* a pydantic ValidationError becomes a RuntimeError
generation_agent_run(parsed) ==
    /\ gen.pc = "idle"
    /\ gen' = IF PortfolioOutputValid(parsed)
              THEN [pc |-> "returned", via |-> "GenerationAgent.run",
                    content |-> parsed, error |-> None]
              ELSE [pc |-> "raised", via |-> "GenerationAgent.run",
                    content |-> None, error |-> "RuntimeError"]
    /\ UNCHANGED exceptGenVars

\* process_resume_task: `await ai_service.generate_portfolio_content(raw_text)`
\* hands back portfolio_json
generate_portfolio_content(portfolio_json) ==
    /\ gen.pc = "idle"
    /\ gen' = [pc |-> "checking", via |-> "process_resume_task",
               content |-> portfolio_json, error |-> None]
    /\ UNCHANGED exceptGenVars

\* process_resume_task: the format check, then Portfolio(content=...), commit
store_portfolio ==
    /\ gen.pc = "checking"
    /\ gen' = IF InvalidFormat(gen.content)
              THEN [gen EXCEPT !.pc = "raised", !.content = None,
                               !.error = "ValueError"]
              ELSE [gen EXCEPT !.pc = "stored"]
    /\ UNCHANGED exceptGenVars

(***************************************************************************)
(* CodeModificationTools.find_and_replace and update_css_variable on the   *)
(* text of one existing file                                               *)
(***************************************************************************)
MaxTextLen == 3
MaxArgLen == 2
MaxPieces == 5

Strings(chars, n) == UNION {[1..k -> chars] : k \in 0..n}

CallNone ==
    [tool |-> None, find |-> <<>>, replace |-> <<>>, variable_name |-> <<>>,
     values |-> <<>>, anchor |-> <<>>, code |-> <<>>, updates |-> <<>>,
     n |-> 0, texts |-> <<>>, results |-> <<>>]

EditIdle == ftext = <<>> /\ fcall = CallNone

\* "".join(pieces)
RECURSIVE Concat(_)
Concat(pieces) ==
    IF pieces = <<>> THEN <<>> ELSE Head(pieces) \o Concat(Tail(pieces))

\* str.replace(find, replace): left to right, occurrences do not overlap; an
\* empty find matches before every character and at the end
RECURSIVE StrReplace(_, _, _)
StrReplace(s, find, replace) ==
    IF find = <<>>
    THEN IF s = <<>> THEN replace
         ELSE replace \o <<Head(s)>> \o StrReplace(Tail(s), find, replace)
    ELSE IF Len(s) < Len(find) THEN s
    ELSE IF SubSeq(s, 1, Len(find)) = find
    THEN replace \o StrReplace(SubSeq(s, Len(find) + 1, Len(s)), find, replace)
    ELSE <<Head(s)>> \o StrReplace(Tail(s), find, replace)

\* find_and_replace without its `if new_content == content` return
FindAndReplaceUnchecked(content, find, replace) ==
    [new_content |-> StrReplace(content, find, replace),
     msg |-> "Replaced",
     replacements |->
         IF find = <<>> THEN Len(content) + 1
         ELSE (Len(content) - Len(StrReplace(content, find, <<>>))) \div Len(find)]

\* find_and_replace with count = -1 on an existing file: the new content, the
\* kind of message returned and content.count(find) (the occurrences that
\* str.replace removes)
FindAndReplace(content, find, replace) ==
    [new_content |-> StrReplace(content, find, replace),
     msg |-> IF StrReplace(content, find, replace) = content
             THEN "No matches found" ELSE "Replaced",
     replacements |->
         IF find = <<>> THEN Len(content) + 1
         ELSE (Len(content) - Len(StrReplace(content, find, <<>>))) \div Len(find)]

find_and_replace ==
    LET r == FindAndReplace(ftext, fcall.find, fcall.replace) IN
    /\ fcall.tool = "find_and_replace"
    /\ fcall.n < 2
    /\ ftext' = r.new_content
    /\ fcall' = [fcall EXCEPT !.n = @ + 1,
                              !.texts = Append(@, r.new_content),
                              !.results = Append(@, [msg |-> r.msg,
                                                     count |-> r.replacements])]
    /\ UNCHANGED exceptEditVars

\* the pattern (name\s*:\s*)([^;]+)(;) tried at the start of s: whether it
\* matches, where group 1 ends and where the match ends
CssMatch(s, name) ==
    LET Spaces(i) ==
            CHOOSE k \in 0..Len(s) :
                /\ i + k - 1 <= Len(s)
                /\ \A j \in i..(i + k - 1) : s[j] = " "
                /\ (i + k > Len(s) \/ s[i + k] # " ")
        colon == Len(name) + Spaces(Len(name) + 1) + 1
        semis == {j \in (colon + 1)..Len(s) : s[j] = ";"}
        semi == FirstIndex(semis)
        value == colon + Spaces(colon + 1) + 1
    IN
    IF /\ Len(s) >= Len(name)
       /\ SubSeq(s, 1, Len(name)) = name
       /\ colon <= Len(s)
       /\ s[colon] = ":"
       /\ semis # {}
       /\ semi >= colon + 2
    THEN [ok |-> TRUE, group1 |-> IF value = semi THEN value - 2 ELSE value - 1,
          end |-> semi]
    ELSE [ok |-> FALSE, group1 |-> 0, end |-> 0]

RECURSIVE CssSubn(_, _, _)

\* a tool that adds a declaration at the end instead of replacing the value
CssSubnAppend(s, name, new_value) ==
    [new_content |-> s \o name \o <<":">> \o new_value \o <<";">>, count |-> 1]

\* re.subn(pattern, replacer, content): every match, left to right, becomes
\* group 1 + new_value + ";"
CssSubn(s, name, new_value) ==
    IF s = <<>> THEN [new_content |-> <<>>, count |-> 0]
    ELSE LET m == CssMatch(s, name) IN
         IF m.ok
         THEN LET rest == CssSubn(SubSeq(s, m.end + 1, Len(s)), name, new_value)
              IN [new_content |-> SubSeq(s, 1, m.group1) \o new_value \o <<";">>
                                      \o rest.new_content,
                  count |-> rest.count + 1]
         ELSE LET rest == CssSubn(Tail(s), name, new_value)
              IN [new_content |-> <<Head(s)>> \o rest.new_content,
                  count |-> rest.count]

\* variable_name with the -- prefix added when it is missing
WithPrefix(variable_name) ==
    IF Len(variable_name) >= 2 /\ SubSeq(variable_name, 1, 2) = <<"-", "-">>
    THEN variable_name ELSE <<"-", "-">> \o variable_name

\* update_css_variable on an existing file: nothing is written when count = 0
update_css_variable(variable_name, new_value) ==
    LET r == CssSubn(ftext, WithPrefix(variable_name), new_value) IN
    /\ fcall.tool = "update_css_variable"
    /\ fcall.n < 2
    /\ ftext' = IF r.count = 0 THEN ftext ELSE r.new_content
    /\ fcall' = [fcall EXCEPT
                    !.n = @ + 1,
                    !.variable_name = WithPrefix(variable_name),
                    !.values = Append(@, new_value),
                    !.texts = Append(@, ftext'),
                    !.results = Append(@, [msg |-> IF r.count = 0
                                                   THEN "CSS variable not found"
                                                   ELSE "Updated",
                                           count |-> r.count])]
    /\ UNCHANGED exceptEditVars


\* str.splitlines(keepends=True) of a text whose only line break is "\n"
RECURSIVE SplitLines(_)
SplitLines(s) ==
    LET ends == {i \in 1..Len(s) : s[i] = "\n"} IN
    IF s = <<>> THEN <<>>
    ELSE IF ends = {} THEN <<s>>
    ELSE <<SubSeq(s, 1, FirstIndex(ends))>>
            \o SplitLines(SubSeq(s, FirstIndex(ends) + 1, Len(s)))

\* len(line) - len(line.lstrip())
Indent(line) ==
    LET dark == {i \in 1..Len(line) : line[i] \notin {" ", "\n"}} IN
    IF dark = {} THEN Len(line) ELSE FirstIndex(dark) - 1

\* "\n".join(" " * indent + l if l.strip() else l for l in code.splitlines())
RECURSIVE IndentedCode(_, _)
IndentedCode(lines, indent) ==
    LET l == IF Head(lines)[Len(Head(lines))] = "\n"
             THEN SubSeq(Head(lines), 1, Len(Head(lines)) - 1)
             ELSE Head(lines)
        out == IF Indent(l) < Len(l) THEN [k \in 1..indent |-> " "] \o l ELSE l
    IN
    IF lines = <<>> THEN <<>>
    ELSE IF Len(lines) = 1 THEN out
    ELSE out \o <<"\n">> \o IndentedCode(Tail(lines), indent)

\* the loop of insert_code_after (offset 1) and insert_code_before (offset 0)
\* on an existing file: lines.insert(i + offset, indented_code + "\n") at the
\* first line that contains the anchor, then "".join(lines)
InsertCode(content, anchor, code, offset) ==
    LET lines == SplitLines(content)
        hits == {i \in 1..Len(lines) : Contains(lines[i], anchor)}
        i == FirstIndex(hits)
        new_line == IndentedCode(SplitLines(code), Indent(lines[i])) \o <<"\n">>
    IN
    IF hits = {} THEN [new_content |-> content, msg |-> "Line not found"]
    ELSE [new_content |->
              Concat(SubSeq(lines, 1, i - 1 + offset) \o <<new_line>>
                        \o SubSeq(lines, i + offset, Len(lines))),
          msg |-> "Inserted code"]

insert_code_after ==
    LET r == InsertCode(ftext, fcall.anchor, fcall.code, 1) IN
    /\ fcall.tool = "insert_code_after"
    /\ fcall.n < 1
    /\ ftext' = r.new_content
    /\ fcall' = [fcall EXCEPT !.n = @ + 1,
                              !.texts = Append(@, r.new_content),
                              !.results = Append(@, [msg |-> r.msg, count |-> 0])]
    /\ UNCHANGED exceptEditVars

insert_code_before ==
    LET r == InsertCode(ftext, fcall.anchor, fcall.code, 0) IN
    /\ fcall.tool = "insert_code_before"
    /\ fcall.n < 1
    /\ ftext' = r.new_content
    /\ fcall' = [fcall EXCEPT !.n = @ + 1,
                              !.texts = Append(@, r.new_content),
                              !.results = Append(@, [msg |-> r.msg, count |-> 0])]
    /\ UNCHANGED exceptEditVars

\* a JSON file: text that does not parse, or text in some layout that parses
\* to a document; a document is the set of its <<path, leaf>> pairs, "{}"
\* being an empty object and any other leaf a value that is no object
JsonFiles ==
    {[format |-> "invalid", doc |-> {}]} \cup
    {[format |-> f, doc |-> d] :
        f \in {"compact", "indent2"},
        d \in {{<<<<>>, "{}">>}, {<<<<>>, "1">>}, {<<<< <<"a">> >>, "1">>},
               {<<<< <<"a">> >>, "{}">>}, {<<<< <<"a">>, <<"a">> >>, "1">>}}}

MaxKeyLen == 3

\* key.split(".")
RECURSIVE SplitDot(_)
SplitDot(s) ==
    LET dots == {i \in 1..Len(s) : s[i] = "."} IN
    IF dots = {} THEN <<s>>
    ELSE <<SubSeq(s, 1, FirstIndex(dots) - 1)>>
            \o SplitDot(SubSeq(s, FirstIndex(dots) + 1, Len(s)))

IsPrefix(p, q) == Len(p) <= Len(q) /\ SubSeq(q, 1, Len(p)) = p

\* a _set_nested that replaces a value standing in the way by an object
SetNestedOverwrite(doc, keys, value) ==
    [ok |-> TRUE,
     doc |-> {e \in doc : ~IsPrefix(keys, e[1]) /\ ~IsPrefix(e[1], keys)}
                \cup {<<keys, value>>}]

\* _set_nested(data, keys, value): setdefault(key, {}) along keys[:-1], then
\* data[keys[-1]] = value; both raise on a value that is no object
SetNested(doc, keys, value) ==
    IF \E e \in doc : e[1] # keys /\ IsPrefix(e[1], keys) /\ e[2] # "{}"
    THEN [ok |-> FALSE, doc |-> doc]
    ELSE [ok |-> TRUE,
          doc |-> {e \in doc : ~IsPrefix(keys, e[1]) /\ ~IsPrefix(e[1], keys)}
                     \cup {<<keys, value>>}]

\* for key, value in updates.items(): self._set_nested(data, key.split("."), value)
RECURSIVE ApplyUpdates(_, _)
ApplyUpdates(doc, updates) ==
    LET r == SetNested(doc, SplitDot(Head(updates).key), Head(updates).value) IN
    IF updates = <<>> THEN [ok |-> TRUE, doc |-> doc]
    ELSE IF r.ok THEN ApplyUpdates(r.doc, Tail(updates))
    ELSE r

\* update_json_file on an existing file: json.loads, the updates, and only
\* then path.write_text(json.dumps(data, indent=2))
update_json_file(updates) ==
    LET r == ApplyUpdates(ftext.doc, updates) IN
    /\ fcall.tool = "update_json_file"
    /\ fcall.n < 1
    /\ ftext' = IF ftext.format # "invalid" /\ r.ok
                THEN [format |-> "indent2", doc |-> r.doc] ELSE ftext
    /\ fcall' = [fcall EXCEPT
                    !.n = @ + 1,
                    !.updates = updates,
                    !.texts = Append(@, ftext'),
                    !.results = Append(@,
                        [msg |-> IF ftext.format = "invalid" THEN "Error: Invalid JSON"
                                 ELSE IF r.ok THEN "Updated" ELSE "Error",
                         count |-> Len(updates)])]
    /\ UNCHANGED exceptEditVars

\* style sheets put together from a few pieces of text
CssFiles ==
    {Concat(ps) :
        ps \in Strings({<<"-", "-", "x">>, <<":">>, <<";">>, <<"a">>, <<" ">>},
                       MaxPieces)}

\* new values an agent may pass
CssValues == {<<>>, <<"b">>, <<" ">>, <<"b", ";", "c">>}

\* an existing file and the arguments of the calls to come
EditInit ==
    \/ /\ ftext \in Strings({"a", "b"}, MaxTextLen)
       /\ \E find, replace \in Strings({"a", "b"}, MaxArgLen) :
             fcall = [CallNone EXCEPT !.tool = "find_and_replace",
                                      !.find = find, !.replace = replace,
                                      !.texts = <<ftext>>]
    \/ /\ ftext \in CssFiles
       /\ fcall = [CallNone EXCEPT !.tool = "update_css_variable",
                                   !.texts = <<ftext>>]
    \/ /\ ftext \in JsonFiles
       /\ fcall = [CallNone EXCEPT !.tool = "update_json_file",
                                   !.texts = <<ftext>>]
    \/ /\ ftext \in Strings({"a", " ", "\n"}, MaxTextLen)
       /\ \E tool \in {"insert_code_after", "insert_code_before"},
             anchor \in {<<>>, <<"a">>, <<"b">>},
             code \in {<<>>, <<"b">>, <<"b", "\n", " ", "\n">>} :
             fcall = [CallNone EXCEPT !.tool = tool, !.anchor = anchor,
                                      !.code = code, !.texts = <<ftext>>]

(***************************************************************************)
(* Integration API (agents/integration.py), deploy callback, portfolio     *)
(* routes and template data files                                          *)
(*                                                                         *)
(* A Python value that may be a dict is [is_dict, fields]: fields maps the *)
(* keys present to their values, every value being a sequence.             *)
(***************************************************************************)
OpIdle ==
    op = [name |-> None, pc |-> "idle", arg |-> <<>>, calls |-> <<>>,
          result |-> <<>>]

\* a truth test that every value passes
TruthyAlways(d, key) == TRUE

\* bool(d.get(key)) for a dict d; bool(d) when key is None
Truthy(d, key) ==
    IF key = None THEN d.is_dict /\ DOMAIN d.fields # {}
    ELSE key \in DOMAIN d.fields /\ d.fields[key] # <<>>

\* a validation that asks for a name or an email only
validate_input_identity_only(parsed_data) ==
    IF ~parsed_data.is_dict
    THEN [ok |-> FALSE, error |-> "parsed_data must be a dictionary"]
    ELSE IF ~Truthy(parsed_data, "name") /\ ~Truthy(parsed_data, "email")
    THEN [ok |-> FALSE, error |-> "At least one of 'name' or 'email' is required"]
    ELSE [ok |-> TRUE, error |-> None]

validate_input(parsed_data) ==
    IF ~parsed_data.is_dict
    THEN [ok |-> FALSE, error |-> "parsed_data must be a dictionary"]
    ELSE IF ~Truthy(parsed_data, "name") /\ ~Truthy(parsed_data, "email")
    THEN [ok |-> FALSE, error |-> "At least one of 'name' or 'email' is required"]
    ELSE IF ~\E key \in {"skills", "projects", "experience"} :
                Truthy(parsed_data, key)
    THEN [ok |-> FALSE,
          error |-> "Resume must contain at least skills, projects, or experience"]
    ELSE [ok |-> TRUE, error |-> None]

\* generate_portfolio up to its first await, or to the raise of ValidationError
generate_portfolio(parsed_data, config) ==
    /\ op.pc = "idle"
    /\ op' = IF validate_input(parsed_data).ok
             THEN [name |-> "generate_portfolio", pc |-> "await",
                   arg |-> [parsed_data |-> parsed_data, config |-> config],
                   calls |-> <<[fn |-> "portfolio_creator.arun",
                                outcome |-> "pending"]>>,
                   result |-> <<>>]
             ELSE [name |-> "generate_portfolio", pc |-> "raised",
                   arg |-> [parsed_data |-> parsed_data, config |-> config],
                   calls |-> <<>>,
                   result |-> [exc |-> "ValidationError",
                               message |-> validate_input(parsed_data).error]]
    /\ UNCHANGED exceptOpVars

\* the awaited agent call raised, or returned content: generate_portfolio
\* runs on to its next await, to its return or to the except clause
generate_portfolio_resume(outcome) ==
    LET n == Len(op.calls)
        done == [op.calls EXCEPT ![n].outcome = outcome]
        failed(message) ==
            [op EXCEPT !.pc = "raised", !.calls = done,
                       !.result = [exc |-> "GenerationError", message |-> message]]
    IN
    /\ op.name = "generate_portfolio"
    /\ op.pc = "await"
    /\ op' =
          IF outcome = "raise" THEN failed("agent call failed")
          ELSE IF op.calls[n].fn = "portfolio_creator.arun"
          THEN [op EXCEPT !.calls = Append(done, [fn |-> "template_selector.arun",
                                                   outcome |-> "pending"])]
          ELSE IF op.calls[n].fn = "template_selector.arun"
          THEN IF Truthy(op.arg.config, None)
                    /\ Truthy(op.arg.config, "customization_prompt")
               \* Agent(..., model=get_model(), ...): the name get_model is
               \* bound nowhere in this function or module
               THEN failed("name 'get_model' is not defined")
               ELSE [op EXCEPT !.pc = "returned", !.calls = done,
                        !.result = [success |-> TRUE,
                                    portfolio_data |->
                                        [template_id |-> outcome,
                                         customizations_applied |-> None]]]
          \* after developer_agent.arun: final_portfolio is assigned only
          \* further down, the subscript assignment raises UnboundLocalError
          ELSE failed("local variable 'final_portfolio' referenced before assignment")
    /\ UNCHANGED exceptOpVars

\* an export that goes on to the try block whatever the format
export_portfolio_any_format(portfolio, format, yaml_installed) ==
    /\ op.pc = "idle"
    /\ op' = [name |-> "export_portfolio", pc |-> "returned",
              arg |-> [portfolio |-> portfolio, format |-> format],
              calls |-> <<>>, result |-> [text |-> None]]
    /\ UNCHANGED exceptOpVars

\* export_portfolio: no await, the call runs to its return or raise
export_portfolio(portfolio, format, yaml_installed) ==
    LET raised(exc, message) ==
            [name |-> "export_portfolio", pc |-> "raised",
             arg |-> [portfolio |-> portfolio, format |-> format],
             calls |-> <<>>, result |-> [exc |-> exc, message |-> message]]
        returned(fn) ==
            [name |-> "export_portfolio", pc |-> "returned",
             arg |-> [portfolio |-> portfolio, format |-> format],
             calls |-> <<[fn |-> fn, outcome |-> "returned"]>>,
             result |-> [text |-> format]]
    IN
    /\ op.pc = "idle"
    /\ op' =
          IF ~portfolio.is_dict
          THEN raised("ValidationError", "portfolio must be a dictionary")
          ELSE IF format \notin {"json", "yaml", "html_preview"}
          THEN raised("ValidationError", "Unsupported export format")
          ELSE IF format = "json" THEN returned("json.dumps")
          ELSE IF format = "yaml"
          THEN IF yaml_installed THEN returned("yaml.dump")
               ELSE raised("GenerationError", "PyYAML not installed")
          ELSE returned("hero.get")
    /\ UNCHANGED exceptOpVars

\* POST /github/callback up to `await exchange_code_for_token(request.code)`
deploy_github_callback(portfolio_data) ==
    /\ op.pc = "idle"
    /\ op' = [name |-> "deploy_github_callback", pc |-> "await",
              arg |-> [portfolio_data |-> portfolio_data],
              calls |-> <<[fn |-> "exchange_code_for_token",
                           outcome |-> "pending"]>>,
              result |-> <<>>]
    /\ UNCHANGED exceptOpVars

\* the awaited call raised or returned: the handler runs on to its next
\* await, to a return, or to `except Exception` and its HTTPException
deploy_github_callback_resume(outcome) ==
    LET n == Len(op.calls)
        done == [op.calls EXCEPT ![n].outcome = outcome]
    IN
    /\ op.name = "deploy_github_callback"
    /\ op.pc = "await"
    /\ op' =
          IF outcome = "raise"
          THEN [op EXCEPT !.pc = "raised", !.calls = done,
                          !.result = [exc |-> "HTTPException", status_code |-> 400]]
          ELSE IF op.calls[n].fn = "exchange_code_for_token"
          THEN [op EXCEPT !.calls = Append(done, [fn |-> "get_github_user",
                                                   outcome |-> "pending"])]
          ELSE IF op.calls[n].fn = "get_github_user"
          THEN IF ~Truthy(op.arg.portfolio_data, None)
               THEN [op EXCEPT !.pc = "returned", !.calls = done,
                        !.result = [success |-> "True",
                                    github_token |-> op.calls[1].outcome,
                                    github_repo_url |-> None,
                                    deployment_url |-> None]]
               ELSE [op EXCEPT !.calls =
                        Append(done, [fn |-> "deploy_to_github_and_vercel",
                                      outcome |-> "pending"])]
          ELSE [op EXCEPT !.pc = "returned", !.calls = done,
                   !.result = [success |-> outcome,
                               github_token |-> op.calls[1].outcome,
                               github_repo_url |-> "github_url",
                               deployment_url |-> "deployment_url"]]
    /\ UNCHANGED exceptOpVars

\* a request to the portfolio router: the routes are tried in the order of
\* their declaration, the first whose path and method match handles it; a
\* path that only matches routes of another method is answered 405
portfolio_request(method, path, registry) ==
    LET routes ==
            <<[method |-> "GET", path |-> <<"me">>, endpoint |-> "get_my_portfolios"],
              [method |-> "GET", path |-> <<"{}">>, endpoint |-> "get_portfolio_by_job"],
              [method |-> "PATCH", path |-> <<"{}", "publish">>,
               endpoint |-> "update_portfolio_settings"],
              [method |-> "GET", path |-> <<"public", "{}">>,
               endpoint |-> "get_public_portfolio"],
              [method |-> "GET", path |-> <<"templates">>, endpoint |-> "list_templates"],
              [method |-> "GET", path |-> <<"templates", "{}">>,
               endpoint |-> "get_template"],
              [method |-> "POST", path |-> <<"customize">>,
               endpoint |-> "customize_portfolio_template"],
              [method |-> "POST", path |-> <<"chat">>,
               endpoint |-> "chat_with_portfolio_ai"],
              [method |-> "GET", path |-> <<"features">>,
               endpoint |-> "list_available_features"]>>
        PathMatch(i) ==
            /\ Len(routes[i].path) = Len(path)
            /\ \A k \in 1..Len(path) :
                  routes[i].path[k] = "{}" \/ routes[i].path[k] = path[k]
        full == {i \in 1..Len(routes) : PathMatch(i) /\ routes[i].method = method}
        partial == {i \in 1..Len(routes) : PathMatch(i)}
        endpoint == IF full # {} THEN routes[FirstIndex(full)].endpoint ELSE None
    IN
    /\ op.pc = "idle"
    /\ op' = [name |-> "portfolio_request", pc |-> "returned",
              arg |-> [method |-> method, path |-> path, registry |-> registry],
              calls |-> <<>>,
              result |->
                 IF endpoint = "list_templates"
                 THEN [endpoint |-> endpoint, status_code |-> 200,
                       templates |->
                          [i \in 1..Len(registry) |->
                              [id |-> registry[i].id, name |-> registry[i].name,
                               framework |-> registry[i].framework,
                               type |-> registry[i].type,
                               features |-> registry[i].features]]]
                 ELSE [endpoint |-> endpoint,
                       status_code |->
                          IF endpoint = "get_portfolio_by_job" THEN JobStatusCode(JobNone)
                          \* the other handlers answer for themselves
                          ELSE IF endpoint # None THEN 0
                          ELSE IF partial # {} THEN 405 ELSE 404,
                       templates |-> <<>>]]
    /\ UNCHANGED exceptOpVars

\* get_template_data_file for the paths fs that exist under templates_dir
get_template_data_file(template_id, fs) ==
    LET data_files == <<"assets/lib/data.tsx", "data/data.tsx", "config.js",
                        "src/data/portfolio.json", "data/portfolio.json">>
        found == {i \in 1..Len(data_files) : <<template_id, data_files[i]>> \in fs}
    IN
    /\ op.pc = "idle"
    /\ op' = [name |-> "get_template_data_file", pc |-> "returned",
              arg |-> [template_id |-> template_id, fs |-> fs],
              calls |-> <<>>,
              result |->
                 IF <<template_id>> \notin fs
                 THEN [msg |-> "Template not found", path |-> <<>>]
                 ELSE IF found # {}
                 THEN [msg |-> "path",
                       path |-> <<template_id, data_files[FirstIndex(found)]>>]
                 ELSE [msg |-> "No data file found for template", path |-> <<>>]]
    /\ UNCHANGED exceptOpVars

(***************************************************************************)
(* Job store specification                                                 *)
(***************************************************************************)
\* the authenticated user whose upload created job jid
Uploader(jid) == ((jid - 1) % NumUsers) + 1

JobsEmpty ==
    /\ jobs = <<>>
    /\ portfolios = <<>>
    /\ task = [j \in JobIds |-> TaskIdle]
    /\ resp = RespNone

JobsInit ==
    /\ \E S \in SUBSET JobIds, row \in JobRows : jobs = [j \in S |-> row]
    /\ portfolios = <<>>
    /\ task = [j \in JobIds |-> TaskIdle]
    /\ resp = RespNone

Init ==
    /\ JobsInit
    /\ RateIdle
    /\ AdapterIdle
    /\ FilesIdle
    /\ ToolsIdle
    /\ ChatIdle
    /\ ErrorsIdle
    /\ SelectIdle
    /\ GenIdle
    /\ EditIdle
    /\ OpIdle

Next ==
    \/ \E j \in JobIds : TaskStart(j, Uploader(j))
    \/ \E j \in JobIds, text \in OcrTexts : OcrReturn(j, text)
    \/ \E j \in JobIds : TaskRaise(j)
    \/ \E j \in JobIds, c \in Contents, ok, rok \in BOOLEAN :
          GenerateReturn(j, c, ok, rok)
    \/ \E j \in JobIds : get_portfolio_by_job(j)
    \/ \E j \in JobIds, u \in Users, upd \in Updates :
          update_portfolio_settings(j, u, upd)
    \/ \E s \in Slugs : get_public_portfolio(s)

Spec == Init /\ [][Next]_vars

(***************************************************************************)
(* Rate limiter, adapter and customization specifications                  *)
(***************************************************************************)
InitRate ==
    /\ JobsEmpty
    /\ RateIdle
    /\ AdapterIdle
    /\ FilesIdle
    /\ ToolsIdle
    /\ ChatIdle
    /\ ErrorsIdle
    /\ SelectIdle
    /\ GenIdle
    /\ EditIdle
    /\ OpIdle

NextRate ==
    \/ \E c \in Callers : response_enter(c)
    \/ \E c \in Callers : response_send(c)
    \/ Tick

SpecRate == InitRate /\ [][NextRate]_vars

InitAdapter ==
    /\ JobsEmpty
    /\ RateIdle
    /\ AdapterIdle
    /\ FilesIdle
    /\ ToolsIdle
    /\ ChatIdle
    /\ ErrorsIdle
    /\ SelectIdle
    /\ GenIdle
    /\ EditIdle
    /\ OpIdle

NextAdapter ==
    \/ vision_to_text_call
    \/ \E o \in ProviderOutcomes : vision_to_text_finish(o)

SpecAdapter == InitAdapter /\ [][NextAdapter]_vars

InitFiles ==
    /\ JobsEmpty
    /\ RateIdle
    /\ AdapterIdle
    /\ FilesIdle
    /\ ToolsIdle
    /\ ChatIdle
    /\ ErrorsIdle
    /\ SelectIdle
    /\ GenIdle
    /\ EditIdle
    /\ OpIdle

NextFiles ==
    \/ \E j \in JobIds, t \in RequestTemplates : customize_portfolio_template(j, t)
    \/ \E j \in JobIds : write_file(j)

SpecFiles == InitFiles /\ [][NextFiles]_vars

\* every component as the process starts it
InitIdle ==
    /\ JobsEmpty
    /\ RateIdle
    /\ AdapterIdle
    /\ FilesIdle
    /\ ToolsIdle
    /\ ChatIdle
    /\ ErrorsIdle
    /\ SelectIdle
    /\ GenIdle
    /\ EditIdle
    /\ OpIdle

NextTools ==
    \/ \E p \in PathArgs, c \in FileContents \ {"template"} : tools_write_file(p, c)
    \/ \E p \in PathArgs : tools_create_directory(p)
    \/ tools_copy_template("one_temp", "one_temp")
    \/ \E p \in PathArgs : tools_find_and_replace(p)

SpecTools == InitIdle /\ [][NextTools]_vars

NextChat ==
    \/ chat_receive
    \/ \E text \in {"", "Hel", "lo"} : chat_chunk(text)
    \/ chat_end
    \/ \E e \in {"WebSocketDisconnect", "Exception"} : chat_except(e)

SpecChat == InitIdle /\ [][NextChat]_vars

NextErrors ==
    \/ \E ep \in Endpoints, kind \in DOMAIN ShowcaseParent \cup {"Exception"},
          text \in [1..1 -> MsgChars] \cup [1..2 -> MsgChars] :
             endpoint_raise(ep, kind, text)
    \/ exception_handler

SpecErrors == InitIdle /\ [][NextErrors]_vars

NextSelect ==
    \/ \E role \in UNION {[1..n -> {"d", "e", "D", "x"}] : n \in 0..MaxRoleLen} :
          find_templates_by_role(role)
    \/ \E content \in UNION {[1..n -> {" ", "[backtick]", "one_temp", "nine_temp"}] :
                                n \in 0..MaxContentLen} :
          select_template(content)

SpecSelect == InitIdle /\ [][NextSelect]_vars

NextGen ==
    \/ \E parsed \in GenContents : generation_agent_run(parsed)
    \/ \E portfolio_json \in GenContents : generate_portfolio_content(portfolio_json)
    \/ store_portfolio

SpecGen == InitIdle /\ [][NextGen]_vars

InitEdit ==
    /\ JobsEmpty
    /\ RateIdle
    /\ AdapterIdle
    /\ FilesIdle
    /\ ToolsIdle
    /\ ChatIdle
    /\ ErrorsIdle
    /\ SelectIdle
    /\ GenIdle
    /\ EditInit
    /\ OpIdle

NextEdit ==
    \/ find_and_replace
    \/ LET One == {[key |-> k, value |-> v] :
                      k \in Strings({"a", "."}, MaxKeyLen), v \in {"1", "{}"}}
       IN \E updates \in {<<>>} \cup {<<u>> : u \in One}
                            \cup {p \in One \X One : p[1].key # p[2].key} :
             update_json_file(updates)
    \/ insert_code_after
    \/ insert_code_before
    \/ \E variable_name \in {<<"x">>, <<"-", "-", "x">>}, new_value \in CssValues :
          update_css_variable(variable_name, new_value)

SpecEdit == InitEdit /\ [][NextEdit]_vars

(***************************************************************************)
(* Integration calls and requests, one at a time, with their inputs        *)
(***************************************************************************)
NextOps ==
    LET Dicts(keys) ==
            {[is_dict |-> FALSE, fields |-> <<>>]} \cup
            {[is_dict |-> TRUE, fields |-> f] :
                f \in UNION {[S -> {<<>>, <<"x">>}] : S \in SUBSET keys}}
        Registry ==
            <<[id |-> "one_temp", name |-> "One", framework |-> "nextjs",
               type |-> "developer", features |-> <<"dark_mode">>,
               best_for |-> <<"developer">>],
              [id |-> "two_temp", name |-> "Two", framework |-> "react",
               type |-> "designer", features |-> <<>>,
               best_for |-> <<"designer">>]>>
        Files ==
            {<<"one_temp">>, <<"one_temp", "config.js">>,
             <<"one_temp", "data/portfolio.json">>,
             <<"one_temp", "assets/lib/data.tsx">>, <<"one_temp", "README.md">>}
    IN
    \/ \E parsed_data \in Dicts({"name", "email", "skills", "projects", "experience"}),
          config \in Dicts({"customization_prompt"}) :
             generate_portfolio(parsed_data, config)
    \/ \E outcome \in {"raise", "one_temp", "two_temp"} :
             generate_portfolio_resume(outcome)
    \/ \E portfolio \in Dicts({"hero"}),
          format \in {"json", "yaml", "html_preview", "xml", "pdf", ""},
          yaml_installed \in BOOLEAN :
             export_portfolio(portfolio, format, yaml_installed)
    \/ \E portfolio_data \in Dicts({"hero", "template_id"}) :
             deploy_github_callback(portfolio_data)
    \/ \E outcome \in {"raise", "True", "False"} :
             deploy_github_callback_resume(outcome)
    \/ \E method \in {"GET", "POST"},
          path \in {<<"templates">>, <<"me">>, <<"features">>, <<"job-1">>,
                    <<"templates", "one_temp">>, <<"chat">>, <<"a", "b", "c">>},
          registry \in {Registry, SubSeq(Registry, 1, 1), <<>>} :
             portfolio_request(method, path, registry)
    \/ \E template_id \in {"one_temp", "ghost"},
          fs \in {S \in SUBSET Files : S = {} \/ <<"one_temp">> \in S} :
             get_template_data_file(template_id, fs)

SpecOps == InitIdle /\ [][NextOps]_vars

(***************************************************************************)
(* Claims about the job store and the portfolio handlers (under Spec)      *)
(***************************************************************************)
ReadOf(j) == resp.op = "get_portfolio_by_job" /\ resp.job_id = j

\* C1: a read of a job in a non-terminal status that has no Portfolio is
\* answered 202 (never 404) and the body carries the job's
\* progress_percentage and current_stage.
C1_NonTerminalReadIs202 ==
    \A j \in DOMAIN jobs :
        (ReadOf(j) /\ jobs[j].status \in NonTerminal /\ ~HasPortfolio(j))
        => /\ resp.status_code = 202
           /\ Field(resp.error.message, "progress_percentage")
                  = ToString(jobs[j].progress_percentage)
           /\ Field(resp.error.message, "current_stage")
                  = jobs[j].current_stage

C1_Witness ==
    \E j \in DOMAIN jobs :
        /\ ReadOf(j)
        /\ jobs[j].status = "AI_GENERATING"
        /\ ~HasPortfolio(j)
        /\ resp.status_code = 202

\* C2: a read of a COMPLETED job that has no Portfolio is answered with the
\* integrity failure (500, "not found despite job completion"), which differs
\* from the answer given for an unknown job_id.
C2_CompletedWithoutPortfolioIsIntegrityError ==
    \A j \in DOMAIN jobs :
        (ReadOf(j) /\ jobs[j].status = "COMPLETED" /\ ~HasPortfolio(j))
        => /\ resp.status_code = 500
           /\ resp.status_code # JobStatusCode(JobNone)
           /\ Field(resp.error.message, "message")
                  = "Portfolio not found despite job completion."
           /\ resp.error # JobStatusDetail(j, JobNone)

C2_Witness ==
    \E j \in DOMAIN jobs :
        /\ ReadOf(j)
        /\ jobs[j].status = "COMPLETED"
        /\ ~HasPortfolio(j)
        /\ resp.status_code = 500

\* C3: once a job's status is FAILED or COMPLETED, no step of the system
\* (task step, read, publish update) changes that job's status.
C3_TerminalStatusIsFinal ==
    [][\A j \in DOMAIN jobs :
          jobs[j].status \in Terminal
          => j \in DOMAIN jobs' /\ jobs'[j].status = jobs[j].status]_vars

C3_Witness ==
    \E j \in DOMAIN jobs :
        /\ jobs[j].status = "FAILED"
        /\ task[j].pc = "done"
        /\ resp.op = "update_portfolio_settings"
        /\ resp.job_id = j
        /\ resp.status_code = 200

\* C4: when a stage of the background task fails, the Job row is moved to
\* FAILED with the error message and the failing stage recorded on it.
C4_FailureRecordedOnJob ==
    \A j \in DOMAIN jobs :
        task[j].pc = "failed"
        => \/ jobs[j].status = "COMPLETED"
           \/ /\ jobs[j].status = "FAILED"
              /\ jobs[j].error_message # None
              /\ jobs[j].current_stage # None

C8_PublishIsOwnerOnly ==
    [][(/\ resp'.op = "update_portfolio_settings"
        /\ HasPortfolio(resp'.job_id)
        /\ SelectPortfolioByJob(resp'.job_id).user_id # resp'.uid)
       => /\ resp'.status_code = 403
          /\ portfolios' = portfolios]_vars

C8_Witness ==
    /\ resp.op = "update_portfolio_settings"
    /\ resp.status_code = 403
    /\ HasPortfolio(resp.job_id)
    /\ SelectPortfolioByJob(resp.job_id).user_id # resp.uid

\* C9: the public read returns a portfolio exactly when a stored portfolio is
\* published under the requested slug, and then returns such a portfolio;
\* otherwise it answers 404.
C9_PublicReadOnlyPublished ==
    resp.op = "get_public_portfolio"
    => IF \E i \in 1..Len(portfolios) :
              portfolios[i].is_published /\ portfolios[i].slug = resp.slug
       THEN /\ resp.status_code = 200
            /\ resp.portfolio.is_published
            /\ resp.portfolio.slug = resp.slug
            /\ \E i \in 1..Len(portfolios) : portfolios[i] = resp.portfolio
       ELSE /\ resp.status_code = 404
            /\ resp.portfolio = PortfolioNone

C9_Witness ==
    /\ resp.op = "get_public_portfolio"
    /\ resp.status_code = 200
    /\ \E i \in 1..Len(portfolios) :
          ~portfolios[i].is_published /\ portfolios[i].slug = resp.slug

(***************************************************************************)
(* Claims about the rate limiter (under SpecRate)                          *)
(***************************************************************************)

\* C6: every request is preceded by the full RATE_LIMIT_DELAY wait and no two
\* requests, from the same or different callers, go out to the provider
\* within the same delay interval.
C6_RequestsSerializedByDelay ==
    /\ \A i \in 1..Len(sent) : sent[i].at - sent[i].entered >= RATE_LIMIT_DELAY
    /\ \A i, k \in 1..Len(sent) :
          i < k => sent[k].at - sent[i].at >= RATE_LIMIT_DELAY

(***************************************************************************)
(* Claims about the vision adapter (under SpecAdapter)                     *)
(***************************************************************************)

\* C7: vision_to_text returns the provider's text, or fails with the
\* empty-response error when the provider returned no text, the rate-limit
\* error when the provider raised with 429, and the API error otherwise.
C7_ErrorKindMatchesFailure ==
    vcall.pc = "done"
    => LET o == vcall.provider IN
       IF o.kind = "return" /\ ~NoText(o)
           THEN vcall.error = None /\ vcall.text = o.text
       ELSE IF o.kind = "return"
           THEN vcall.error = "GeminiEmptyResponseError"
       ELSE IF Contains(o.msg, <<"4", "2", "9">>)
           THEN vcall.error = "GeminiRateLimitError"
       ELSE vcall.error = "GeminiAPIError"

(***************************************************************************)
(* Claims about the customization working copies (under SpecFiles)         *)
(***************************************************************************)

\* C10: customization requests of different jobs work on distinct copies, and
\* the copy a job edited still exists and still holds its edits whatever the
\* other jobs request.
C10_WorkingCopiesIsolated ==
    /\ \A a, b \in JobIds :
          (a # b /\ workdir[a] # 0 /\ workdir[b] # 0) => workdir[a] # workdir[b]
    /\ \A a \in JobIds :
          edited[a] => outdir[workdir[a]].exists /\ a \in outdir[workdir[a]].edits

(***************************************************************************)
(* Claims about the stages of process_resume_task (under Spec)             *)
(***************************************************************************)
TaskSteps ==
    {<<"idle", "ocr">>, <<"ocr", "generate">>, <<"ocr", "failed">>,
     <<"generate", "done">>, <<"generate", "failed">>}

\* C13: the task runs its stages strictly in order: generation starts only
\* when OCR has returned and is called with exactly the text OCR returned;
\* a Portfolio is stored only when generation has returned and its content
\* is exactly what generation returned.
C13_StagesInOrder ==
    [][\A j \in JobIds :
          /\ task'[j].pc # task[j].pc
                => <<task[j].pc, task'[j].pc>> \in TaskSteps
          /\ task'[j].pc = "generate"
                => /\ task'[j].raw_text \in OcrTexts
                   /\ task'[j].gen_arg = task'[j].raw_text
          /\ JobPortfolioIdx(j)' # JobPortfolioIdx(j)
                => /\ task[j].pc = "generate"
                   /\ task'[j].pc \in {"done", "failed"}
                   /\ SelectPortfolioByJob(j)'.content = task'[j].portfolio_json
                   /\ ~InvalidFormat(task'[j].portfolio_json)]_vars

C13_Witness ==
    \E j \in JobIds :
        /\ task[j].pc = "done"
        /\ HasPortfolio(j)
        /\ SelectPortfolioByJob(j).content = task[j].portfolio_json
        /\ \E k \in JobIds : task[k].pc = "generate" /\ task[k].gen_arg = "cv two"

(***************************************************************************)
(* Claims about the toolkits and the templates directory (under SpecTools) *)
(***************************************************************************)
\* C11: whatever toolkit operations ran, with whatever path arguments, every
\* file under the templates directory still has the content it shipped with.
C11_TemplatesReadOnly ==
    /\ ToolsTemplatesDir \o TemplateFile \in DOMAIN tree
    /\ \A f \in DOMAIN tree :
          Under(f, ToolsTemplatesDir) => tree[f] = "template"

(***************************************************************************)
(* Claims about the chat WebSocket (under SpecChat)                        *)
(***************************************************************************)
SentinelCount ==
    Cardinality({i \in 1..Len(ws.sent) : ws.sent[i] = END_OF_STREAM})

\* C12: once the handler is done with a message (it waits for the next one,
\* or it returned while the client was still connected), every message
\* received so far had its reply closed by exactly one end token, and the
\* end token is the last frame sent.
C12_EveryReplyEndsWithSentinel ==
    (ws.pc = "receive" \/ (ws.pc = "closed" /\ ws.raised # "WebSocketDisconnect"))
        => /\ SentinelCount = ws.received
           /\ ws.received > 0 => ws.sent[Len(ws.sent)] = END_OF_STREAM

(***************************************************************************)
(* Claims about error responses (under SpecErrors)                         *)
(***************************************************************************)
\* C14: the response to a request in which an exception that is no
\* ShowcaseError was raised carries the fixed scrubbed message only, and
\* nowhere the text of the exception.
C14_OnlyScrubbedMessage ==
    (hreq.pc = "responded" /\ ~IsInstance(hreq.raised.kind, "ShowcaseError"))
        => /\ hreq.response.message = SCRUBBED
           /\ ~Contains(hreq.response.message, hreq.raised.text)

(***************************************************************************)
(* Claims about template selection (under SpecSelect)                      *)
(***************************************************************************)
\* C15: the selection step yields exactly one template id and that id is in
\* the registry; a role lookup that matches no key still recommends a
\* (default) registry template.
C15_SelectedTemplateInRegistry ==
    /\ sel.pc = "selected"
          => \E id \in RegistryIds : sel.selected_template_id = <<id>>
    /\ sel.pc = "lookup"
          => /\ sel.recommended_templates # <<>>
             /\ \A i \in 1..Len(sel.recommended_templates) :
                   sel.recommended_templates[i] \in RegistryIds

(***************************************************************************)
(* Claims about generated content (under SpecGen)                          *)
(***************************************************************************)
\* C16: content that generation returned or that was stored as a Portfolio
\* has a tagline of at most 100 characters, a primary_color of the form
\* #RRGGBB and a quality_score in [0,1]; other content ends in an error.
C16_StoredContentSatisfiesSchema ==
    gen.pc \in {"returned", "stored"}
        => /\ gen.content.tagline_len <= 100
           /\ Len(gen.content.primary_color) = 7
           /\ gen.content.primary_color[1] = "#"
           /\ gen.content.quality_score \in 0..100

(***************************************************************************)
(* Claims about find_and_replace and update_css_variable (under SpecEdit)  *)
(***************************************************************************)
SecondCallFoundNothing ==
    /\ fcall.results[2].msg = "No matches found"
    /\ fcall.texts[3] = fcall.texts[2]

\* C17 as stated: for any file, find and replace, the second of two calls
\* with the same arguments reports no matches and leaves the file as it is.
C17_SecondApplicationFindsNothing ==
    (fcall.tool = "find_and_replace" /\ fcall.n = 2) => SecondCallFoundNothing

\* C17: when the text left by the first call holds no occurrence of find, the
\* second call with the same arguments reports no matches and leaves the
\* file byte-identical.
C17_IdempotentOnConvergentText ==
    (/\ fcall.tool = "find_and_replace"
     /\ fcall.n = 2
     /\ ~Contains(fcall.texts[2], fcall.find))
        => SecondCallFoundNothing

C17_Witness ==
    /\ fcall.tool = "find_and_replace"
    /\ fcall.n = 2
    /\ fcall.results[1].msg = "Replaced"
    /\ fcall.results[1].count = 2
    /\ ~Contains(fcall.texts[2], fcall.find)
    /\ SecondCallFoundNothing

\* characters a CSS identifier is made of
IdentChars == {"-", "x", "a", "b", "c"}

\* text holds a declaration of the property called name: the name, not part
\* of a longer identifier, then optional white space and a colon
HasDeclaration(text, name) ==
    \E i \in 1..Len(text) :
        /\ (i = 1 \/ text[i - 1] \notin IdentChars)
        /\ \E k \in 0..Len(text) :
              /\ i + Len(name) + k <= Len(text)
              /\ SubSeq(text, i, i + Len(name) - 1) = name
              /\ \A j \in (i + Len(name))..(i + Len(name) + k - 1) : text[j] = " "
              /\ text[i + Len(name) + k] = ":"

\* C18: a call on a file without a declaration of the named variable returns
\* "CSS variable not found" and leaves the content byte-identical.
C18_NotFoundLeavesFileIdentical ==
    (/\ fcall.tool = "update_css_variable"
     /\ fcall.n >= 1
     /\ ~HasDeclaration(fcall.texts[1], fcall.variable_name))
        => /\ fcall.results[1].msg = "CSS variable not found"
           /\ fcall.texts[2] = fcall.texts[1]

\* the file after two calls is the file one call with the second value gives
SecondValueOnly ==
    /\ fcall.results[2].msg = "Updated"
    /\ fcall.texts[3] =
          CssSubn(fcall.texts[1], fcall.variable_name, fcall.values[2]).new_content

RECURSIVE ExactSubn(_, _, _, _)
ExactSubn(s, prev, name, new_value) ==
    IF s = <<>> THEN <<>>
    ELSE LET m == CssMatch(s, name) IN
         IF m.ok /\ prev \notin IdentChars
         THEN SubSeq(s, 1, m.group1) \o new_value \o <<";">>
                  \o ExactSubn(SubSeq(s, m.end + 1, Len(s)), ";", name, new_value)
         ELSE <<Head(s)>> \o ExactSubn(Tail(s), Head(s), name, new_value)

\* C20: a call replaces the value of the declarations whose property name is
\* exactly the given name and changes nothing else, not even a declaration
\* whose name ends with the given name.
C20_ExactNameOnly ==
    (fcall.tool = "update_css_variable" /\ fcall.n >= 1)
        => fcall.texts[2] =
              ExactSubn(fcall.texts[1], " ", fcall.variable_name, fcall.values[1])
(***************************************************************************)
(* Claims about what the background task leaves in the portfolio store     *)
(***************************************************************************)
\* C28: when a step of process_resume_task raises, the portfolio store is as
\* it was before the task (no Portfolio row for the job is persisted); a
\* Portfolio row, with is_published FALSE, is persisted exactly when every
\* step succeeded.
C28_RaiseLeavesNoPortfolio ==
    [][\A j \in JobIds :
          /\ (task[j].pc # "failed" /\ task'[j].pc = "failed")
                => (portfolios' = portfolios /\ ~HasPortfolio(j)')
          /\ (task[j].pc # "done" /\ task'[j].pc = "done")
                => /\ HasPortfolio(j)'
                   /\ ~SelectPortfolioByJob(j)'.is_published
                   /\ Len(portfolios') = Len(portfolios) + 1]_vars
(***************************************************************************)
(* Claims about the status codes of application errors                     *)
(***************************************************************************)
\* C24: the response to an application error carries the status documented
\* for its class: ValidationError and its subclasses 400, NotFoundError 404,
\* AuthenticationError 401, AuthorizationError 403, RateLimitError 429, and
\* every other ShowcaseError a 5xx status.
C24_StatusByErrorClass ==
    (hreq.pc = "responded" /\ IsInstance(hreq.exc.kind, "ShowcaseError"))
        => CASE hreq.exc.kind \in {"ValidationError", "FileValidationError"} ->
                    hreq.status_code = 400
             [] hreq.exc.kind = "NotFoundError" -> hreq.status_code = 404
             [] hreq.exc.kind = "AuthenticationError" -> hreq.status_code = 401
             [] hreq.exc.kind = "AuthorizationError" -> hreq.status_code = 403
             [] hreq.exc.kind = "RateLimitError" -> hreq.status_code = 429
             [] OTHER -> hreq.status_code \in 500..599

C24_Witness ==
    /\ hreq.pc = "responded"
    /\ hreq.exc.kind = "FileValidationError"
    /\ hreq.status_code = 400
    /\ hreq.response.error_type = "FileValidationError"
(***************************************************************************)
(* Claims about anchored line insertion                                    *)
(***************************************************************************)
\* the lines of the file with the lines of the code put in at position at
LinesWithCode(old, at) ==
    LET lines == SplitLines(old)
        first == FirstIndex({i \in 1..Len(lines) : Contains(lines[i], fcall.anchor)})
        code_lines ==
            SplitLines(IndentedCode(SplitLines(fcall.code), Indent(lines[first]))
                          \o <<"\n">>)
    IN SubSeq(lines, 1, first - 1 + at) \o code_lines
          \o SubSeq(lines, first + at, Len(lines))

\* C21: insert_code_after / insert_code_before put the code in exactly once,
\* as new lines right after / before the first line that contains the
\* anchor, and keep every line of the file unchanged and in order; when no
\* line contains the anchor the file is unchanged and "Line not found" is
\* returned.
C21_InsertedAsNewLines ==
    (fcall.tool \in {"insert_code_after", "insert_code_before"} /\ fcall.n = 1)
        => IF \E i \in 1..Len(SplitLines(fcall.texts[1])) :
                  Contains(SplitLines(fcall.texts[1])[i], fcall.anchor)
           THEN SplitLines(fcall.texts[2]) =
                    LinesWithCode(fcall.texts[1],
                        IF fcall.tool = "insert_code_after" THEN 1 ELSE 0)
           ELSE /\ fcall.texts[2] = fcall.texts[1]
                /\ fcall.results[1].msg = "Line not found"
(***************************************************************************)
(* Claims about JSON updates                                               *)
(***************************************************************************)
\* update k of the call is not undone by a later update of the same call
Lasting(k) ==
    \A m \in (k + 1)..Len(fcall.updates) :
        /\ ~IsPrefix(SplitDot(fcall.updates[m].key), SplitDot(fcall.updates[k].key))
        /\ ~IsPrefix(SplitDot(fcall.updates[k].key), SplitDot(fcall.updates[m].key))

\* C29: update_json_file is all-or-nothing: either every update is applied
\* and written, or an error string is returned and the file is byte for byte
\* what it was; invalid JSON and a dot path that steps through an existing
\* value that is no object are such errors.
C29_AllOrNothing ==
    (fcall.tool = "update_json_file" /\ fcall.n = 1)
        => /\ \/ /\ fcall.results[1].msg \in {"Error", "Error: Invalid JSON"}
                 /\ fcall.texts[2] = fcall.texts[1]
              \/ /\ fcall.results[1].msg = "Updated"
                 /\ fcall.texts[2].format = "indent2"
                 /\ \A k \in 1..Len(fcall.updates) :
                        Lasting(k) =>
                            <<SplitDot(fcall.updates[k].key), fcall.updates[k].value>>
                                \in fcall.texts[2].doc
                 /\ \A e \in fcall.texts[1].doc :
                        (\A k \in 1..Len(fcall.updates) :
                            /\ ~IsPrefix(SplitDot(fcall.updates[k].key), e[1])
                            /\ ~IsPrefix(e[1], SplitDot(fcall.updates[k].key)))
                          => e \in fcall.texts[2].doc
           /\ fcall.texts[1].format = "invalid"
                 => fcall.results[1].msg = "Error: Invalid JSON"
           /\ (/\ fcall.texts[1].format # "invalid"
               /\ fcall.updates # <<>>
               /\ \E e \in fcall.texts[1].doc :
                     /\ e[2] # "{}"
                     /\ e[1] # SplitDot(fcall.updates[1].key)
                     /\ IsPrefix(e[1], SplitDot(fcall.updates[1].key)))
                 => (fcall.results[1].msg = "Error"
                        /\ fcall.texts[2] = fcall.texts[1])

\* a two-key update whose second key steps through the value the file holds
\* at "a" was refused and left the compact file as it was
C29_Witness ==
    /\ fcall.tool = "update_json_file"
    /\ fcall.n = 1
    /\ Len(fcall.updates) = 2
    /\ fcall.updates[2].key = <<"a", ".", "a">>
    /\ fcall.texts[1] = [format |-> "compact", doc |-> {<<<< <<"a">> >>, "1">>}]
    /\ fcall.results[1].msg = "Error"
    /\ ftext = fcall.texts[1]
(***************************************************************************)
(* Claims about the integration calls, the deploy callback, the portfolio  *)
(* routes and the template data files                                      *)
(***************************************************************************)
\* key is present in the dict d with a value that is not empty
NonEmpty(d, key) == d.is_dict /\ key \in DOMAIN d.fields /\ d.fields[key] # <<>>

\* C22: export_portfolio with a format outside json, yaml, html_preview
\* raises a validation error whatever the portfolio, before any serialization
\* or model call.
C22_UnsupportedFormatFailsFirst ==
    (/\ op.name = "export_portfolio"
     /\ op.arg.format \notin {"json", "yaml", "html_preview"})
        => /\ op.pc = "raised"
           /\ op.result.exc = "ValidationError"
           /\ op.calls = <<>>

C22_Witness ==
    /\ op.name = "export_portfolio"
    /\ op.arg.format = "xml"
    /\ op.arg.portfolio.is_dict
    /\ op.pc = "raised"
    /\ op.result.message = "Unsupported export format"

\* parsed resume data the validation is to accept
Acceptable(d) ==
    /\ d.is_dict
    /\ NonEmpty(d, "name") \/ NonEmpty(d, "email")
    /\ NonEmpty(d, "skills") \/ NonEmpty(d, "projects") \/ NonEmpty(d, "experience")

C25_TemplatesRouteListsRegistry ==
    (/\ op.name = "portfolio_request"
     /\ op.arg.method = "GET"
     /\ op.arg.path = <<"templates">>)
        => /\ op.result.endpoint = "list_templates"
           /\ op.result.status_code = 200
           /\ Len(op.result.templates) = Len(op.arg.registry)
           /\ \A i \in 1..Len(op.arg.registry) :
                  /\ op.result.templates[i].id = op.arg.registry[i].id
                  /\ DOMAIN op.result.templates[i] =
                        {"id", "name", "framework", "type", "features"}

\* the calls of the callback made so far, by name
CallsMade == [i \in 1..Len(op.calls) |-> op.calls[i].fn]

\* C26: the deploy callback calls the deployment only after the code
\* exchange and the user lookup have both returned and only when portfolio
\* data was given; a failing call is answered with HTTP 400 and missing data
\* with a success response that carries the token and nothing else.
C26_DeployOnlyAfterExchangeAndLookup ==
    op.name = "deploy_github_callback"
        => /\ (\E i \in 1..Len(op.calls) : op.calls[i].fn = "deploy_to_github_and_vercel")
                 => /\ SubSeq(CallsMade, 1, 3) =
                          <<"exchange_code_for_token", "get_github_user",
                            "deploy_to_github_and_vercel">>
                    /\ Len(op.calls) = 3
                    /\ op.calls[1].outcome \notin {"raise", "pending"}
                    /\ op.calls[2].outcome \notin {"raise", "pending"}
                    /\ \E key \in {"hero", "template_id"} :
                          key \in DOMAIN op.arg.portfolio_data.fields
           /\ (\E i \in 1..Len(op.calls) : op.calls[i].outcome = "raise")
                 => /\ op.pc = "raised"
                    /\ op.result.status_code = 400
           /\ (op.pc = "returned" /\ Len(op.calls) < 3)
                 => /\ DOMAIN op.arg.portfolio_data.fields = {}
                    /\ op.result.success = "True"
                    /\ op.result.github_token = op.calls[1].outcome
                    /\ op.result.github_repo_url = None
                    /\ op.result.deployment_url = None

\* exchange and lookup returned, data was given, the deployment was called
C26_Witness ==
    /\ op.name = "deploy_github_callback"
    /\ op.pc = "returned"
    /\ CallsMade = <<"exchange_code_for_token", "get_github_user",
                     "deploy_to_github_and_vercel">>
    /\ NonEmpty(op.arg.portfolio_data, "hero")

\* C27: the data-file lookup answers "no data file found" for a template
\* that has no directory or none of the fixed data-file locations, and the
\* first existing location of the priority list otherwise.
C27_UnknownTemplateHasNoDataFile ==
    op.name = "get_template_data_file"
        => LET order == <<"assets/lib/data.tsx", "data/data.tsx", "config.js",
                          "src/data/portfolio.json", "data/portfolio.json">>
               here == {i \in 1..5 : <<op.arg.template_id, order[i]>> \in op.arg.fs}
           IN IF <<op.arg.template_id>> \notin op.arg.fs \/ here = {}
              THEN op.result.msg = "No data file found for template"
              ELSE op.result.path =
                      <<op.arg.template_id, order[FirstIndex(here)]>>

\* C30: generate_portfolio with valid input and a customization_prompt in
\* its config, none of whose model calls fails, runs the developer agent
\* after the template selection and returns success with template_id set and
\* customizations_applied true.
C30_CustomizationIsApplied ==
    (/\ op.name = "generate_portfolio"
     /\ op.pc \in {"returned", "raised"}
     /\ Acceptable(op.arg.parsed_data)
     /\ NonEmpty(op.arg.config, "customization_prompt")
     /\ \A i \in 1..Len(op.calls) : op.calls[i].outcome # "raise")
        => /\ op.pc = "returned"
           /\ CallsMade = <<"portfolio_creator.arun", "template_selector.arun",
                            "developer_agent.arun">>
           /\ op.result.success
           /\ op.result.portfolio_data.template_id \in {"one_temp", "two_temp"}
           /\ op.result.portfolio_data.customizations_applied = "True"
====
